---- MODULE Spec2Model ----
(***************************************************************************)
(* Model of GalSim's tabulated-function interpolation engine               *)
(* (src/src/Table.cpp): ArgVec, Table::TableImpl, Table and Table2D.       *)
(*                                                                         *)
(* A C++ double is modelled as an exact rational <<num, den>> in lowest    *)
(* terms with den > 0; rounding, NaN and infinities are not modelled.      *)
(* Arrays keep the source's 0-based indices: an array of n doubles is a    *)
(* function with domain 0..n-1.                                            *)
(***************************************************************************)
EXTENDS Integers, Sequences, FiniteSets, TLC

\* ------------------------------------------------------------------ bounds
MaxArg == 4        \* sample positions of a 1D axis are drawn from 0..MaxArg
MaxN == 5          \* largest number of samples of a 1D table
MaxArg2 == 3       \* sample positions of a 2D axis are drawn from 0..MaxArg2
MaxN2 == 3         \* largest number of samples on one axis of a 2D table
MaxBatch == 3      \* largest N of an interpMany call
MaxEntries == 3    \* largest number of entries appended to a TableBuilder
MaxArgT == 4       \* sample positions of an axis shared by threads: 0..MaxArgT
MaxNT == 4         \* largest number of samples of an axis shared by threads
MaxDrift == 1      \* how far outside 1..N-1 a raced cursor is followed

\* ------------------------------------------------- double as exact rational
Abs(i) == IF i < 0 THEN -i ELSE i

RECURSIVE GCD(_, _)
GCD(a, b) == IF b = 0 THEN a ELSE GCD(b, a % b)

Rat(num, den) ==
    LET g == GCD(Abs(num), Abs(den))
        s == IF den < 0 THEN -1 ELSE 1
    IN  << (s * num) \div g, (s * den) \div g >>

R(i) == << i, 1 >>
Zero == R(0)
One == R(1)

\* sums, products and comparisons cancel common factors first, so that the
\* intermediate integers stay small
RAdd(x, y) ==
    LET g == GCD(x[2], y[2])
    IN  Rat(x[1] * (y[2] \div g) + y[1] * (x[2] \div g), (x[2] \div g) * y[2])
RNeg(x) == << -x[1], x[2] >>
RSub(x, y) == RAdd(x, RNeg(y))
RMul(x, y) ==
    LET g1 == GCD(Abs(x[1]), y[2])
        g2 == GCD(Abs(y[1]), x[2])
    IN  << (x[1] \div g1) * (y[1] \div g2), (x[2] \div g2) * (y[2] \div g1) >>
RInv(x) == IF x[1] < 0 THEN << -x[2], -x[1] >> ELSE << x[2], x[1] >>
RDiv(x, y) == RMul(x, RInv(y))
RLt(x, y) ==
    LET g == GCD(x[2], y[2])
    IN  x[1] * (y[2] \div g) < y[1] * (x[2] \div g)
RLe(x, y) == ~ RLt(y, x)
RGt(x, y) == RLt(y, x)
RGe(x, y) == RLe(y, x)
RAbs(x) == << Abs(x[1]), x[2] >>
\* std::ceil followed by the int() conversion
CeilInt(x) == -((-x[1]) \div x[2])

\* ---------------------------------------------------------------- ArgVec
tolerance == Rat(1, 100)

ArgVecCursorZero(vec, n) ==
    LET da == RDiv(RSub(vec[n-1], vec[0]), R(n-1))
    IN  [ vec |-> vec,
          n |-> n,
          da |-> da,
          equalSpaced |->
              \A i \in 1..(n-1) :
                  ~ RGt(RAbs(RSub(RDiv(RSub(vec[i], vec[0]), da), R(i))), tolerance),
          lastIndex |-> 0 ]

\* ArgVec::ArgVec
ArgVec(vec, n) ==
    LET da == RDiv(RSub(vec[n-1], vec[0]), R(n-1))
    IN  [ vec |-> vec,
          n |-> n,
          da |-> da,
          equalSpaced |->
              \A i \in 1..(n-1) :
                  ~ RGt(RAbs(RSub(RDiv(RSub(vec[i], vec[0]), da), R(i))), tolerance),
          lastIndex |-> 1 ]

\* while (a > _vec[i]) ++i;
RECURSIVE NudgeUp(_, _, _)
NudgeUp(vec, a, i) == IF RGt(a, vec[i]) THEN NudgeUp(vec, a, i + 1) ELSE i

NudgeDownNone(vec, a, i) == i

\* while (a < _vec[i-1]) --i;
RECURSIVE NudgeDown(_, _, _)
NudgeDown(vec, a, i) == IF RLt(a, vec[i-1]) THEN NudgeDown(vec, a, i - 1) ELSE i

\* std::upper_bound(begin()+first, begin()+first+len, a): the first position
\* whose element is greater than a, by bisection
RECURSIVE upper_bound_le(_, _, _, _)
upper_bound_le(vec, first, len, a) ==
    IF len <= 0 THEN first
    ELSE LET half == len \div 2
             middle == first + half
         IN  IF RLe(a, vec[middle])
             THEN upper_bound_le(vec, first, half, a)
             ELSE upper_bound_le(vec, middle + 1, len - half - 1, a)

RECURSIVE upper_bound(_, _, _, _)
upper_bound(vec, first, len, a) ==
    IF len <= 0 THEN first
    ELSE LET half == len \div 2
             middle == first + half
         IN  IF RLt(a, vec[middle])
             THEN upper_bound(vec, first, half, a)
             ELSE upper_bound(vec, middle + 1, len - half - 1, a)

RECURSIVE lower_bound_gt(_, _, _, _)
lower_bound_gt(vec, first, len, a) ==
    IF len <= 0 THEN first
    ELSE LET half == len \div 2
             middle == first + half
         IN  IF RLe(vec[middle], a)
             THEN lower_bound_gt(vec, middle + 1, len - half - 1, a)
             ELSE lower_bound_gt(vec, first, half, a)

\* std::lower_bound(begin()+first, begin()+first+len, a): the first position
\* whose element is not less than a, by bisection
RECURSIVE lower_bound(_, _, _, _)
lower_bound(vec, first, len, a) ==
    IF len <= 0 THEN first
    ELSE LET half == len \div 2
             middle == first + half
         IN  IF RLt(vec[middle], a)
             THEN lower_bound(vec, middle + 1, len - half - 1, a)
             ELSE lower_bound(vec, first, half, a)

\* the equal-spaced branch of ArgVec::upperIndex
EqualSpacedIndex(av, a) ==
    LET i0 == CeilInt(RDiv(RSub(a, av.vec[0]), av.da))
        i1 == IF i0 >= av.n THEN i0 - 1 ELSE i0
        i2 == IF i1 = 0 THEN i1 + 1 ELSE i1
    IN  NudgeDown(av.vec, a, NudgeUp(av.vec, a, i2))

\* the cursor branch of ArgVec::upperIndex; path names the branch taken and
\* ok is the conjunction of the xasserts passed on the way
SearchIndex(av, a) ==
    LET vec == av.vec
        L == av.lastIndex
        okL == L >= 1 /\ L < av.n
    IN  IF ~ okL THEN [ret |-> L, lastIndex |-> L, ok |-> FALSE, path |-> "assert"]
        ELSE IF RLt(a, vec[L-1]) THEN
            IF ~ (L - 2 >= 0)
            THEN [ret |-> L, lastIndex |-> L, ok |-> FALSE, path |-> "assert"]
            ELSE IF RGe(a, vec[L-2])
            THEN [ret |-> L - 1, lastIndex |-> L - 1, ok |-> TRUE, path |-> "previous"]
            ELSE LET p == upper_bound(vec, 0, L - 1, a)
                 IN  [ret |-> p, lastIndex |-> p,
                      ok |-> p # 0 /\ p # L - 1, path |-> "lower"]
        ELSE IF RGt(a, vec[L]) THEN
            IF ~ (L + 1 < av.n)
            THEN [ret |-> L, lastIndex |-> L, ok |-> FALSE, path |-> "assert"]
            ELSE IF RLe(a, vec[L+1])
            THEN [ret |-> L + 1, lastIndex |-> L + 1, ok |-> TRUE, path |-> "next"]
            ELSE LET p == lower_bound(vec, L + 1, av.n - (L + 1), a)
                 IN  [ret |-> p, lastIndex |-> p,
                      ok |-> p # L + 1 /\ p # av.n, path |-> "higher"]
        ELSE [ret |-> L, lastIndex |-> L, ok |-> TRUE, path |-> "still"]

\* ArgVec::upperIndex
upperIndex(av, a) ==
    IF RLt(a, av.vec[0])
    THEN [ret |-> 1, lastIndex |-> av.lastIndex, ok |-> TRUE, path |-> "below"]
    ELSE IF RGt(a, av.vec[av.n - 1])
    THEN [ret |-> av.n - 1, lastIndex |-> av.lastIndex, ok |-> TRUE, path |-> "above"]
    ELSE IF av.equalSpaced
    THEN [ret |-> EqualSpacedIndex(av, a), lastIndex |-> av.lastIndex,
          ok |-> TRUE, path |-> "equal"]
    ELSE SearchIndex(av, a)

\* ------------------------------------------------------- Table::TableImpl
\* the values of Table::interpolant the constructor's switch recognizes
Interpolants == {"linear", "floor", "ceil", "nearest", "spline"}

SplineRhsSum(av, v, i) ==
    RMul(R(6), RAdd(RDiv(RSub(v[i+1], v[i]), RSub(av.vec[i+1], av.vec[i])),
                    RDiv(RSub(v[i], v[i-1]), RSub(av.vec[i], av.vec[i-1]))))

\* the right-hand side of row i of the spline system
SplineRhs(av, v, i) ==
    RMul(R(6), RSub(RDiv(RSub(v[i+1], v[i]), RSub(av.vec[i+1], av.vec[i])),
                    RDiv(RSub(v[i], v[i-1]), RSub(av.vec[i], av.vec[i-1]))))

RECURSIVE ThomasForwardNoBreak(_, _, _, _, _)
ThomasForwardNoBreak(av, i, y2, c, bb) ==
    LET y2a == [y2 EXCEPT ![i] = RDiv(y2[i], bb)]
        a == RSub(av.vec[i+1], av.vec[i])
        y2b == [y2a EXCEPT ![i+1] = RSub(y2a[i+1], RMul(a, y2a[i]))]
    IN  IF i = av.n - 2 THEN [y2 |-> y2b, c |-> c]
        ELSE LET ci == RDiv(a, bb)
                 bb2 == RSub(RMul(R(2), RSub(av.vec[i+2], av.vec[i])), RMul(a, ci))
             IN  ThomasForwardNoBreak(av, i + 1, y2b, [c EXCEPT ![i-1] = ci], bb2)

\* forward elimination of the Thomas algorithm, from row i on
RECURSIVE ThomasForward(_, _, _, _, _)
ThomasForward(av, i, y2, c, bb) ==
    LET y2a == [y2 EXCEPT ![i] = RDiv(y2[i], bb)]
    IN  IF i = av.n - 2 THEN [y2 |-> y2a, c |-> c]
        ELSE LET a == RSub(av.vec[i+1], av.vec[i])
                 ci == RDiv(a, bb)
                 bb2 == RSub(RMul(R(2), RSub(av.vec[i+2], av.vec[i])), RMul(a, ci))
                 y2b == [y2a EXCEPT ![i+1] = RSub(y2a[i+1], RMul(a, y2a[i]))]
             IN  ThomasForward(av, i + 1, y2b, [c EXCEPT ![i-1] = ci], bb2)

RECURSIVE ThomasBackNextRow(_, _, _)
ThomasBackNextRow(i, y2, c) ==
    IF i <= 0 THEN y2
    ELSE ThomasBackNextRow(i - 1, [y2 EXCEPT ![i] = RSub(y2[i], RMul(c[i-1], y2[i]))], c)

\* back-substitution of the Thomas algorithm, from row i down to row 1
RECURSIVE ThomasBack(_, _, _)
ThomasBack(i, y2, c) ==
    IF i <= 0 THEN y2
    ELSE ThomasBack(i - 1, [y2 EXCEPT ![i] = RSub(y2[i], RMul(c[i-1], y2[i+1]))], c)

setupSplineNoThrow(av, v) ==
    LET nn == av.n
        y0 == [i \in 0..(nn-1) |-> Zero]
    IN  IF nn = 3
        THEN [thrown |-> "",
              y2 |-> [y0 EXCEPT ![1] =
                  RDiv(RMul(R(3), RSub(RDiv(RSub(v[2], v[1]), RSub(av.vec[2], av.vec[1])),
                                       RDiv(RSub(v[1], v[0]), RSub(av.vec[1], av.vec[0])))),
                       RSub(av.vec[2], av.vec[0]))]]
        ELSE IF nn - 3 < 0
        THEN [thrown |-> "", y2 |-> y0]
        ELSE LET rhs == [i \in 0..(nn-1) |->
                            IF i >= 1 /\ i <= nn - 2 THEN SplineRhs(av, v, i) ELSE Zero]
                 fw == ThomasForward(av, 1, rhs, [i \in 0..(nn-4) |-> Zero],
                                     RMul(R(2), RSub(av.vec[2], av.vec[0])))
             IN  [thrown |-> "", y2 |-> ThomasBack(nn - 3, fw.y2, fw.c)]

\* the build with USE_TMV: entry (r, k) of the symmetric band matrix M, whose
\* diagonal and first off-diagonal are the only entries stored
TmvM(av, r, k) ==
    IF r = k THEN RMul(R(2), RSub(av.vec[r+2], av.vec[r]))
    ELSE IF r = k + 1 THEN RSub(av.vec[r+1], av.vec[r])
    ELSE IF k = r + 1 THEN RSub(av.vec[k+1], av.vec[k])
    ELSE Zero

\* the build with USE_TMV: entry r of the vector rhs
TmvRhs(av, v, r) ==
    RMul(R(6), RSub(RDiv(RSub(v[r+2], v[r+1]), RSub(av.vec[r+2], av.vec[r+1])),
                    RDiv(RSub(v[r+1], v[r]), RSub(av.vec[r+1], av.vec[r]))))

\* row r of M times the vector sol
RECURSIVE TmvRowTimes(_, _, _, _)
TmvRowTimes(av, sol, r, k) ==
    IF k < 0 THEN Zero
    ELSE RAdd(TmvRowTimes(av, sol, r, k - 1), RMul(TmvM(av, r, k), sol[k]))

\* solution = rhs / M: sol is what the solver returns when M * sol = rhs
TmvSolves(av, v, sol) ==
    \A r \in 0..(av.n - 3) : TmvRowTimes(av, sol, r, av.n - 3) = TmvRhs(av, v, r)

\* Table::TableImpl::setupSpline, in the build without USE_TMV.  The
\* temporary std::vector<double> c(_n-3) cannot be created for _n = 2: its
\* length -1 converts to the largest size_t and the constructor throws.
setupSpline(av, v) ==
    LET nn == av.n
        y0 == [i \in 0..(nn-1) |-> Zero]
    IN  IF nn = 3
        THEN [thrown |-> "",
              y2 |-> [y0 EXCEPT ![1] =
                  RDiv(RMul(R(3), RSub(RDiv(RSub(v[2], v[1]), RSub(av.vec[2], av.vec[1])),
                                       RDiv(RSub(v[1], v[0]), RSub(av.vec[1], av.vec[0])))),
                       RSub(av.vec[2], av.vec[0]))]]
        ELSE IF nn - 3 < 0
        THEN [thrown |-> "length_error", y2 |-> y0]
        ELSE LET rhs == [i \in 0..(nn-1) |->
                            IF i >= 1 /\ i <= nn - 2 THEN SplineRhs(av, v, i) ELSE Zero]
                 fw == ThomasForward(av, 1, rhs, [i \in 0..(nn-4) |-> Zero],
                                     RMul(R(2), RSub(av.vec[2], av.vec[0])))
             IN  [thrown |-> "", y2 |-> ThomasBack(nn - 3, fw.y2, fw.c)]

\* Table::TableImpl::TableImpl: the fields of the object, or the exception
TableImpl(vec, v, N, in) ==
    LET av == ArgVec(vec, N)
        sp == setupSpline(av, v)
        noY2 == [i \in 0..(-1) |-> Zero]
    IN  IF in \notin Interpolants
        THEN [thrown |-> "invalid interpolation method", args |-> av, y2 |-> noY2]
        ELSE IF in = "spline"
        THEN [thrown |-> sp.thrown, args |-> av, y2 |-> sp.y2]
        ELSE [thrown |-> "", args |-> av, y2 |-> noY2]

linearInterpolateSameIndex(av, v, a, i) ==
    LET ax == RDiv(RSub(av.vec[i], a), RSub(av.vec[i], av.vec[i-1]))
        bx == RSub(One, ax)
    IN  RAdd(RMul(v[i], bx), RMul(v[i], ax))

linearInterpolateSwapped(av, v, a, i) ==
    LET ax == RDiv(RSub(av.vec[i], a), RSub(av.vec[i], av.vec[i-1]))
        bx == RSub(One, ax)
    IN  RAdd(RMul(v[i], ax), RMul(v[i-1], bx))

\* Table::TableImpl::linearInterpolate
linearInterpolate(av, v, a, i) ==
    LET ax == RDiv(RSub(av.vec[i], a), RSub(av.vec[i], av.vec[i-1]))
        bx == RSub(One, ax)
    IN  RAdd(RMul(v[i], bx), RMul(v[i-1], ax))

floorInterpolateNoTie(av, v, a, i) == v[i - 1]

\* Table::TableImpl::floorInterpolate
floorInterpolate(av, v, a, i) ==
    LET i2 == IF a = av.vec[i] THEN i + 1 ELSE i
    IN  v[i2 - 1]

ceilInterpolateNoTie(av, v, a, i) == v[i]

\* Table::TableImpl::ceilInterpolate
ceilInterpolate(av, v, a, i) ==
    LET i2 == IF a = av.vec[i-1] THEN i - 1 ELSE i
    IN  v[i2]

\* Table::TableImpl::nearestInterpolate
nearestInterpolate(av, v, a, i) ==
    LET i2 == IF RLt(RSub(a, av.vec[i-1]), RSub(av.vec[i], a)) THEN i - 1 ELSE i
    IN  v[i2]

\* Table::TableImpl::splineInterpolate (the #else branch that is compiled)
splineInterpolate(av, v, yy, a, i) ==
    LET h == RSub(av.vec[i], av.vec[i-1])
        aa == RSub(av.vec[i], a)
        bb == RSub(h, aa)
    IN  RDiv(RSub(RAdd(RMul(aa, v[i-1]), RMul(bb, v[i])),
                  RMul(RMul(RMul(Rat(1, 6), aa), bb),
                       RAdd(RMul(RAdd(aa, h), yy[i-1]), RMul(RAdd(bb, h), yy[i])))),
             h)

\* the member function the constructor's switch stored in interpolate
interpolate(in, av, v, yy, a, i) ==
    CASE in = "linear" -> linearInterpolate(av, v, a, i)
      [] in = "floor" -> floorInterpolate(av, v, a, i)
      [] in = "ceil" -> ceilInterpolate(av, v, a, i)
      [] in = "nearest" -> nearestInterpolate(av, v, a, i)
      [] in = "spline" -> splineInterpolate(av, v, yy, a, i)

\* ---------------------------------------------------------------- Table2D
\* the values of Table2D::interpolant that makeImpl's switch recognizes
Interpolants2D == {"floor", "ceil", "nearest", "linear"}

T2DLinearInterpTransposed(xa, ya, v, ny, x, y, i, j) ==
    LET ax == RDiv(RSub(xa.vec[i], x), RSub(xa.vec[i], xa.vec[i-1]))
        ay == RDiv(RSub(ya.vec[j], y), RSub(ya.vec[j], ya.vec[j-1]))
        bx == RSub(One, ax)
        by == RSub(One, ay)
    IN  RAdd(RAdd(RAdd(RMul(RMul(v[(i-1)*ny + j-1], ax), ay),
                       RMul(RMul(v[(i-1)*ny + j], bx), ay)),
                  RMul(RMul(v[i*ny + j-1], ax), by)),
             RMul(RMul(v[i*ny + j], bx), by))

\* T2DLinearInterp::interp, after the two upperIndex calls returned i and j
T2DLinearInterp(xa, ya, v, ny, x, y, i, j) ==
    LET ax == RDiv(RSub(xa.vec[i], x), RSub(xa.vec[i], xa.vec[i-1]))
        ay == RDiv(RSub(ya.vec[j], y), RSub(ya.vec[j], ya.vec[j-1]))
        bx == RSub(One, ax)
        by == RSub(One, ay)
    IN  RAdd(RAdd(RAdd(RMul(RMul(v[(i-1)*ny + j-1], ax), ay),
                       RMul(RMul(v[i*ny + j-1], bx), ay)),
                  RMul(RMul(v[(i-1)*ny + j], ax), by)),
             RMul(RMul(v[i*ny + j], bx), by))

T2DLinearGradientSwapped(xa, ya, v, ny, x, y, i, j) ==
    LET dx == RSub(xa.vec[i], xa.vec[i-1])
        dy == RSub(ya.vec[j], ya.vec[j-1])
        f00 == v[(i-1)*ny + j-1]
        f01 == v[(i-1)*ny + j]
        f10 == v[i*ny + j-1]
        f11 == v[i*ny + j]
        ax == RDiv(RSub(xa.vec[i], x), RSub(xa.vec[i], xa.vec[i-1]))
        bx == RSub(One, ax)
        ay == RDiv(RSub(ya.vec[j], y), RSub(ya.vec[j], ya.vec[j-1]))
        by == RSub(One, ay)
    IN  [dfdx |-> RDiv(RAdd(RMul(RSub(f10, f00), by), RMul(RSub(f11, f01), ay)), dx),
         dfdy |-> RDiv(RAdd(RMul(RSub(f01, f00), ax), RMul(RSub(f11, f10), bx)), dy)]

\* T2DLinearInterp::gradient, after the two upperIndex calls returned i and j
T2DLinearGradient(xa, ya, v, ny, x, y, i, j) ==
    LET dx == RSub(xa.vec[i], xa.vec[i-1])
        dy == RSub(ya.vec[j], ya.vec[j-1])
        f00 == v[(i-1)*ny + j-1]
        f01 == v[(i-1)*ny + j]
        f10 == v[i*ny + j-1]
        f11 == v[i*ny + j]
        ax == RDiv(RSub(xa.vec[i], x), RSub(xa.vec[i], xa.vec[i-1]))
        bx == RSub(One, ax)
        ay == RDiv(RSub(ya.vec[j], y), RSub(ya.vec[j], ya.vec[j-1]))
        by == RSub(One, ay)
    IN  [dfdx |-> RDiv(RAdd(RMul(RSub(f10, f00), ay), RMul(RSub(f11, f01), by)), dx),
         dfdy |-> RDiv(RAdd(RMul(RSub(f01, f00), ax), RMul(RSub(f11, f10), bx)), dy)]

\* T2DFloorInterp::interp, after the two upperIndex calls
T2DFloorInterp(xa, ya, v, ny, x, y, i, j) ==
    LET i2 == IF x = xa.vec[i] THEN i + 1 ELSE i
        j2 == IF y = ya.vec[j] THEN j + 1 ELSE j
    IN  v[(i2-1)*ny + j2-1]

T2DCeilInterpNoTieY(xa, ya, v, ny, x, y, i, j) ==
    LET i2 == IF x = xa.vec[i-1] THEN i - 1 ELSE i
    IN  v[i2*ny + j]

\* T2DCeilInterp::interp, after the two upperIndex calls
T2DCeilInterp(xa, ya, v, ny, x, y, i, j) ==
    LET i2 == IF x = xa.vec[i-1] THEN i - 1 ELSE i
        j2 == IF y = ya.vec[j-1] THEN j - 1 ELSE j
    IN  v[i2*ny + j2]

\* T2DNearestInterp::interp, after the two upperIndex calls
T2DNearestInterp(xa, ya, v, ny, x, y, i, j) ==
    LET i2 == IF RLt(RSub(x, xa.vec[i-1]), RSub(xa.vec[i], x)) THEN i - 1 ELSE i
        j2 == IF RLt(RSub(y, ya.vec[j-1]), RSub(ya.vec[j], y)) THEN j - 1 ELSE j
    IN  v[i2*ny + j2]

\* ConcreteTable2DImpl<T2DInterp>::lookup: the strategy makeImpl selected
interp(in, xa, ya, v, ny, x, y, i, j) ==
    CASE in = "linear" -> T2DLinearInterp(xa, ya, v, ny, x, y, i, j)
      [] in = "floor" -> T2DFloorInterp(xa, ya, v, ny, x, y, i, j)
      [] in = "ceil" -> T2DCeilInterp(xa, ya, v, ny, x, y, i, j)
      [] in = "nearest" -> T2DNearestInterp(xa, ya, v, ny, x, y, i, j)

gradientThrowsNotNearest(in) ==
    CASE in = "linear" -> ""
      [] in = "floor" -> "gradient not implemented for floor interp"
      [] in = "ceil" -> "gradient not implemented for ceil interp"
      [] in = "nearest" -> ""

\* the message of the exception the strategy's gradient throws, "" if none
gradientThrows(in) ==
    CASE in = "linear" -> ""
      [] in = "floor" -> "gradient not implemented for floor interp"
      [] in = "ceil" -> "gradient not implemented for ceil interp"
      [] in = "nearest" -> "gradient not implemented for nearest interp"

makeImplDefaultLinear(in) == ""

\* Table2D::makeImpl: the exception thrown for the rule in, "" if none
makeImpl(in) ==
    IF in \in Interpolants2D THEN "" ELSE "invalid interpolation method"

\* ----------------------------------------------------------------- inputs
\* the elements of the finite set S of integers in ascending order, as an array
Ascending(S) ==
    [i \in 0..(Cardinality(S) - 1) |->
        R(CHOOSE x \in S : Cardinality({y \in S : y < x}) = i)]

\* arrays that pass the spacing test of ArgVec::ArgVec without being evenly spaced
NearUniform ==
    { Ascending({0, 200, 401, 600}), Ascending({0, 200, 399, 600}),
      Ascending({0, 199, 400}) }

\* caller-owned argument arrays: strictly ascending, at least two samples
Axes(maxArg, maxN) ==
    { Ascending(S) : S \in { T \in SUBSET (0..maxArg) :
                                 Cardinality(T) >= 2 /\ Cardinality(T) <= maxN } }

Axes1D == Axes(MaxArg, MaxN) \cup NearUniform
Axes2D == Axes(MaxArg2, MaxN2) \cup { Ascending({0, 199, 400}) }

\* spline coefficients on the NearUniform arrays need integers wider than the
\* model checker's, so no spline table is built on them
Constructible(vec, in) == vec \in NearUniform => in # "spline"

Size(vec) == Cardinality(DOMAIN vec)

\* query values for an axis: every sample, half a unit either side of every
\* sample (so also below the first and above the last) and every cell's middle
Queries(vec) ==
    LET nn == Size(vec)
    IN  { vec[k] : k \in 0..(nn-1) }
          \cup { RSub(vec[k], Rat(1, 2)) : k \in 0..(nn-1) }
          \cup { RAdd(vec[k], Rat(1, 2)) : k \in 0..(nn-1) }
          \cup { RDiv(RAdd(vec[k], vec[k+1]), R(2)) : k \in 0..(nn-2) }

\* query values for one axis of a 2D table: every sample, every cell's middle,
\* half a unit below the first sample and half a unit above the last
Queries2D(vec) ==
    LET nn == Size(vec)
    IN  { vec[k] : k \in 0..(nn-1) }
          \cup { RDiv(RAdd(vec[k], vec[k+1]), R(2)) : k \in 0..(nn-2) }
          \cup { RSub(vec[0], Rat(1, 2)), RAdd(vec[nn-1], Rat(1, 2)) }

\* caller-owned value arrays for a 1D table
Profiles == {"tens", "square", "line", "zigzag"}
Values(p, vec) ==
    [k \in DOMAIN vec |->
        CASE p = "tens" -> R(10 * (k + 1))
          [] p = "square" -> RMul(vec[k], vec[k])
          [] p = "line" -> RAdd(RMul(R(2), vec[k]), One)
          [] p = "zigzag" -> IF k % 2 = 0 THEN R(5) ELSE R(-3)]

\* caller-owned row-major value grids for a 2D table
Profiles2D == {"tens", "mixed"}
Values2D(p, xa, ya) ==
    LET nx == Size(xa)
        ny == Size(ya)
    IN  [q \in 0..(nx*ny - 1) |->
            LET k == q \div ny
                m == q % ny
            IN  CASE p = "tens" -> R(10 * (q + 1))
                  [] p = "mixed" -> R(10 * (q + 1) + k * m * m - 50)]

\* ------------------------------------------------------ array subscripts
\* the subscripts of _vec that "while (a > _vec[i]) ++i;" reads from i on
RECURSIVE NudgeUpSubscripts(_, _, _)
NudgeUpSubscripts(vec, a, i) ==
    IF i \in DOMAIN vec /\ RGt(a, vec[i])
    THEN {i} \cup NudgeUpSubscripts(vec, a, i + 1)
    ELSE {i}

\* the subscripts of _vec that "while (a < _vec[i-1]) --i;" reads from i on
RECURSIVE NudgeDownSubscripts(_, _, _)
NudgeDownSubscripts(vec, a, i) ==
    IF i - 1 \in DOMAIN vec /\ RLt(a, vec[i-1])
    THEN {i - 1} \cup NudgeDownSubscripts(vec, a, i - 1)
    ELSE {i - 1}

\* the subscripts of _vec that ArgVec::upperIndex(a) reads: front() and
\* back() in the slop checks, then the nudge loops of the equal-spaced
\* branch, or the cursor's neighbours and the range handed to the bisection
upperIndexSubscripts(av, a) ==
    LET vec == av.vec
        L == av.lastIndex
        i0 == CeilInt(RDiv(RSub(a, vec[0]), av.da))
        i1 == IF i0 >= av.n THEN i0 - 1 ELSE i0
        i2 == IF i1 = 0 THEN i1 + 1 ELSE i1
    IN  IF RLt(a, vec[0]) THEN {0}
        ELSE IF RGt(a, vec[av.n - 1]) THEN {0, av.n - 1}
        ELSE IF av.equalSpaced
        THEN {0, av.n - 1} \cup NudgeUpSubscripts(vec, a, i2)
                 \cup NudgeDownSubscripts(vec, a, NudgeUp(vec, a, i2))
        ELSE {0, av.n - 1, L - 1} \cup
             IF RLt(a, vec[L-1])
             THEN {L - 2} \cup (IF RGe(a, vec[L-2]) THEN {} ELSE 0..(L - 2))
             ELSE {L} \cup
                  IF RGt(a, vec[L])
                  THEN {L + 1} \cup (IF RLe(a, vec[L+1]) THEN {} ELSE (L + 1)..(av.n - 1))
                  ELSE {}

interpolateSubscriptsFloorKeepsI(in, av, a, i) ==
    CASE in = "linear" -> [args |-> {i, i - 1}, vals |-> {i, i - 1}, y2 |-> {}]
      [] in = "floor" ->
            [args |-> {i}, vals |-> {IF a = av.vec[i] THEN i + 1 ELSE i}, y2 |-> {}]
      [] in = "ceil" ->
            [args |-> {i - 1}, vals |-> {IF a = av.vec[i-1] THEN i - 1 ELSE i}, y2 |-> {}]
      [] in = "nearest" ->
            [args |-> {i - 1, i},
             vals |-> {IF RLt(RSub(a, av.vec[i-1]), RSub(av.vec[i], a)) THEN i - 1 ELSE i},
             y2 |-> {}]
      [] in = "spline" -> [args |-> {i, i - 1}, vals |-> {i - 1, i}, y2 |-> {i - 1, i}]

\* the subscripts at which the rule in reads _args, _vals and _y2 for the
\* query a and the index i that upperIndex returned
interpolateSubscripts(in, av, a, i) ==
    CASE in = "linear" -> [args |-> {i, i - 1}, vals |-> {i, i - 1}, y2 |-> {}]
      [] in = "floor" ->
            [args |-> {i}, vals |-> {(IF a = av.vec[i] THEN i + 1 ELSE i) - 1}, y2 |-> {}]
      [] in = "ceil" ->
            [args |-> {i - 1}, vals |-> {IF a = av.vec[i-1] THEN i - 1 ELSE i}, y2 |-> {}]
      [] in = "nearest" ->
            [args |-> {i - 1, i},
             vals |-> {IF RLt(RSub(a, av.vec[i-1]), RSub(av.vec[i], a)) THEN i - 1 ELSE i},
             y2 |-> {}]
      [] in = "spline" -> [args |-> {i, i - 1}, vals |-> {i - 1, i}, y2 |-> {i - 1, i}]

\* the subscripts at which the 2D strategy in reads _xargs, _yargs and _vals
\* (interp, and gradient for the linear strategy)
interpSubscripts(in, xa, ya, ny, x, y, i, j) ==
    CASE in = "linear" ->
            [xargs |-> {i, i - 1}, yargs |-> {j, j - 1},
             vals |-> {(i-1)*ny + j-1, i*ny + j-1, (i-1)*ny + j, i*ny + j}]
      [] in = "floor" ->
            LET i2 == IF x = xa.vec[i] THEN i + 1 ELSE i
                j2 == IF y = ya.vec[j] THEN j + 1 ELSE j
            IN  [xargs |-> {i}, yargs |-> {j}, vals |-> {(i2-1)*ny + j2-1}]
      [] in = "ceil" ->
            LET i2 == IF x = xa.vec[i-1] THEN i - 1 ELSE i
                j2 == IF y = ya.vec[j-1] THEN j - 1 ELSE j
            IN  [xargs |-> {i - 1}, yargs |-> {j - 1}, vals |-> {i2*ny + j2}]
      [] in = "nearest" ->
            LET i2 == IF RLt(RSub(x, xa.vec[i-1]), RSub(xa.vec[i], x)) THEN i - 1 ELSE i
                j2 == IF RLt(RSub(y, ya.vec[j-1]), RSub(ya.vec[j], y)) THEN j - 1 ELSE j
            IN  [xargs |-> {i - 1, i}, yargs |-> {j - 1, j}, vals |-> {i2*ny + j2}]

\* ------------------------------------------------------------------ state
VARIABLES
    pimpl,      \* what _pimpl points to: "null", "TableImpl" or "Table2DImpl"
    thrown,     \* message of the exception the last operation threw, "" if none
    iType,      \* TableImpl::_iType
    args,       \* TableImpl::_args
    vals,       \* TableImpl::_vals
    y2,         \* TableImpl::_y2
    in2,        \* the T2DInterp strategy makeImpl selected
    xargs,      \* T2DInterp::_xargs
    yargs,      \* T2DInterp::_yargs
    vals2,      \* T2DInterp::_vals
    op,         \* the last operation
    qin,        \* its interpolant argument
    qn,         \* its N (1D) or <<Nx, Ny>> (2D) argument
    qa,         \* its argument a (1D) or x (2D)
    qy,         \* its argument y
    ri,         \* the index its upperIndex call returned (x axis in 2D)
    rpath,      \* the branch that upperIndex call took (1D)
    rj,         \* the index its upperIndex call on the y axis returned
    rval,       \* the value it returned
    dfdx,       \* gradient's output reference dfdx
    dfdy,       \* gradient's output reference dfdy
    bn,         \* interpMany's argument N
    bk,         \* interpMany's loop variable k
    final,      \* TableBuilder::_final
    bin,        \* TableBuilder::_in, "" while no builder exists
    xvec,       \* TableBuilder::_xvec
    fvec,       \* TableBuilder::_fvec
    th,         \* per thread: position in upperIndex, its a, its local p, its result
    raced       \* a thread has written _lastIndex while another was searching

vars == << pimpl, thrown, iType, args, vals, y2, in2, xargs, yargs, vals2,
           op, qin, qn, qa, qy, ri, rpath, rj, rval, dfdx, dfdy, bn, bk,
           final, bin, xvec, fvec, th, raced >>
vars1D == << iType, args, vals, y2 >>
vars2D == << in2, xargs, yargs, vals2 >>
varsMany == << bn, bk >>
\* the variables of the model that the 1D and 2D table operations never touch
varsBuilder == << final, bin, xvec, fvec >>
varsThreads == << th, raced >>
varsRest == << varsMany, varsBuilder, varsThreads >>

Threads == {1, 2}
IdleThread == [pc |-> "idle", a |-> Zero, p |-> 0, ret |-> 0]

NoArray == [i \in 0..(-1) |-> Zero]
NoArgVec == [vec |-> NoArray, n |-> 0, da |-> Zero, equalSpaced |-> FALSE, lastIndex |-> 0]

Init ==
    /\ pimpl = "null" /\ thrown = ""
    /\ iType = "" /\ args = NoArgVec /\ vals = NoArray /\ y2 = NoArray
    /\ in2 = "" /\ xargs = NoArgVec /\ yargs = NoArgVec /\ vals2 = NoArray
    /\ op = "" /\ qin = "" /\ qn = << 0, 0 >>
    /\ qa = Zero /\ qy = Zero /\ ri = 0 /\ rpath = "" /\ rj = 0 /\ rval = Zero
    /\ dfdx = Zero /\ dfdy = Zero
    /\ bn = 0 /\ bk = 0
    /\ final = FALSE /\ bin = "" /\ xvec = << >> /\ fvec = << >>
    /\ th = [t \in Threads |-> IdleThread] /\ raced = FALSE

\* no call is in progress: the object was just constructed or the last call
\* has returned to its caller
Idle == op \in {"Table", "Table2D", "TableBuilder", "idle"}

\* the caller takes the result of the call: the values the call handed back
\* go out of scope, the object (cursors included) stays as the call left it
Return ==
    /\ \/ op \in {"lookup", "operator()", "lookup2D", "gradient"}
       \/ op = "interpMany" /\ (bk = bn \/ thrown # "")
       \/ op \in {"addEntry", "finalize", "TableBuilder::lookup"} /\ thrown # "crash"
    /\ op' = "idle" /\ thrown' = ""
    /\ qa' = Zero /\ qy' = Zero /\ ri' = 0 /\ rpath' = "" /\ rj' = 0 /\ rval' = Zero
    /\ dfdx' = Zero /\ dfdy' = Zero
    /\ bn' = 0 /\ bk' = 0
    /\ UNCHANGED << pimpl, vars1D, vars2D, qin, qn, varsBuilder, varsThreads >>

\* --------------------------------------------------------------- 1D Table
\* Table::Table(args, vals, N, in)
NewTable ==
    /\ op = ""
    /\ \E vec \in Axes1D, p \in Profiles, in \in Interpolants \cup {"other"} :
          LET v == Values(p, vec)
              t == TableImpl(vec, v, Size(vec), in)
          IN  /\ Constructible(vec, in)
              /\ op' = "Table" /\ qin' = in /\ qn' = << Size(vec), 0 >>
              /\ thrown' = t.thrown
              /\ IF t.thrown = ""
                 THEN /\ pimpl' = "TableImpl"
                      /\ iType' = in /\ args' = t.args /\ vals' = v /\ y2' = t.y2
                 ELSE UNCHANGED << pimpl, iType, args, vals, y2 >>
    /\ UNCHANGED << vars2D, qa, qy, ri, rpath, rj, rval, dfdx, dfdy, varsRest >>

\* Table::TableImpl::lookup(a) on the present object, as a step
TableImplLookup(a, name) ==
    LET r == upperIndex(args, a)
    IN  /\ op' = name /\ qa' = a
        /\ args' = [args EXCEPT !.lastIndex = r.lastIndex]
        /\ ri' = r.ret /\ rpath' = r.path
        /\ IF r.ok
           THEN thrown' = "" /\ rval' = interpolate(iType, args, vals, y2, a, r.ret)
           ELSE thrown' = "Failed Assert" /\ rval' = rval
        /\ UNCHANGED << pimpl, iType, vals, y2, vars2D, qin, qn, qy, rj, dfdx, dfdy >>

\* Table::lookup(a)
Lookup ==
    /\ pimpl = "TableImpl" /\ Idle
    /\ \E a \in Queries(args.vec) : TableImplLookup(a, "lookup")
    /\ UNCHANGED varsRest

CallUnchecked ==
    /\ pimpl = "TableImpl" /\ Idle
    /\ \E a \in Queries(args.vec) : TableImplLookup(a, "operator()")
    /\ UNCHANGED varsRest

\* Table::operator()(a)
Call ==
    /\ pimpl = "TableImpl" /\ Idle
    /\ \E a \in Queries(args.vec) :
          IF RLt(a, args.vec[0]) \/ RGt(a, args.vec[args.n - 1])
          THEN /\ op' = "operator()" /\ qa' = a /\ rval' = Zero /\ thrown' = ""
               /\ UNCHANGED << pimpl, vars1D, vars2D, qin, qn, qy, ri, rpath, rj,
                               dfdx, dfdy >>
          ELSE TableImplLookup(a, "operator()")
    /\ UNCHANGED varsRest

\* Table::interpMany(argvec, valvec, N): entry, with k = 0
InterpManyBegin ==
    /\ pimpl = "TableImpl" /\ Idle
    /\ \E N \in 0..MaxBatch : bn' = N
    /\ bk' = 0 /\ op' = "interpMany" /\ thrown' = ""
    /\ UNCHANGED << pimpl, vars1D, vars2D, qin, qn, qa, qy, ri, rpath, rj, rval,
                    dfdx, dfdy, varsBuilder, varsThreads >>

\* Table::interpMany: one turn of the loop, valvec[k] = _pimpl->lookup(argvec[k]);
\* qa holds argvec[k] and rval holds valvec[k] of the turn just made
InterpManyStep ==
    /\ op = "interpMany" /\ bk < bn /\ thrown = ""
    /\ \E a \in Queries(args.vec) : TableImplLookup(a, "interpMany")
    /\ bk' = bk + 1 /\ bn' = bn
    /\ UNCHANGED << varsBuilder, varsThreads >>

\* --------------------------------------------------------------- 2D Table
\* Table2D::Table2D(xargs, yargs, vals, Nx, Ny, in)
NewTable2D ==
    /\ op = ""
    /\ \E xa \in Axes2D, ya \in Axes2D, p \in Profiles2D,
          in \in Interpolants2D \cup {"spline", "other"} :
          /\ op' = "Table2D" /\ qin' = in /\ qn' = << Size(xa), Size(ya) >>
          /\ thrown' = makeImpl(in)
          /\ IF makeImpl(in) = ""
             THEN /\ pimpl' = "Table2DImpl"
                  /\ in2' = in
                  /\ xargs' = ArgVec(xa, Size(xa))
                  /\ yargs' = ArgVec(ya, Size(ya))
                  /\ vals2' = Values2D(p, xa, ya)
             ELSE UNCHANGED << pimpl, in2, xargs, yargs, vals2 >>
    /\ UNCHANGED << vars1D, qa, qy, ri, rpath, rj, rval, dfdx, dfdy, varsRest >>

\* Table2D::lookup(x, y)
Lookup2D ==
    /\ pimpl = "Table2DImpl" /\ Idle
    /\ \E x \in Queries2D(xargs.vec), y \in Queries2D(yargs.vec) :
          LET rx == upperIndex(xargs, x)
              ry == upperIndex(yargs, y)
          IN  /\ op' = "lookup2D" /\ qa' = x /\ qy' = y
              /\ xargs' = [xargs EXCEPT !.lastIndex = rx.lastIndex]
              /\ yargs' = [yargs EXCEPT !.lastIndex = IF rx.ok THEN ry.lastIndex ELSE @]
              /\ ri' = rx.ret
              /\ rj' = IF rx.ok THEN ry.ret ELSE rj
              /\ IF rx.ok /\ ry.ok
                 THEN /\ thrown' = ""
                      /\ rval' = interp(in2, xargs, yargs, vals2, yargs.n, x, y, rx.ret, ry.ret)
                 ELSE thrown' = "Failed Assert" /\ rval' = rval
    /\ UNCHANGED << pimpl, vars1D, in2, vals2, qin, qn, rpath, dfdx, dfdy, varsRest >>

\* Table2D::gradient(x, y, dfdx, dfdy)
Gradient ==
    /\ pimpl = "Table2DImpl" /\ Idle
    /\ \E x \in Queries2D(xargs.vec), y \in Queries2D(yargs.vec) :
          /\ op' = "gradient" /\ qa' = x /\ qy' = y
          /\ IF gradientThrows(in2) # ""
             THEN /\ thrown' = gradientThrows(in2)
                  /\ UNCHANGED << xargs, yargs, ri, rj, dfdx, dfdy >>
             ELSE LET rx == upperIndex(xargs, x)
                      ry == upperIndex(yargs, y)
                      g == T2DLinearGradient(xargs, yargs, vals2, yargs.n, x, y,
                                             rx.ret, ry.ret)
                  IN  /\ xargs' = [xargs EXCEPT !.lastIndex = rx.lastIndex]
                      /\ yargs' = [yargs EXCEPT !.lastIndex =
                                      IF rx.ok THEN ry.lastIndex ELSE @]
                      /\ ri' = rx.ret
                      /\ rj' = IF rx.ok THEN ry.ret ELSE rj
                      /\ IF rx.ok /\ ry.ok
                         THEN thrown' = "" /\ dfdx' = g.dfdx /\ dfdy' = g.dfdy
                         ELSE thrown' = "Failed Assert" /\ UNCHANGED << dfdx, dfdy >>
    /\ UNCHANGED << pimpl, vars1D, in2, vals2, qin, qn, rpath, rval, varsRest >>

\* ------------------------------------------------------------ TableBuilder
\* &_xvec[0]: the contents of a std::vector as a 0-based array
Array(seq) == [i \in 0..(Len(seq) - 1) |-> seq[i + 1]]

\* TableBuilder::TableBuilder(in)
NewBuilder ==
    /\ op = ""
    /\ \E in \in Interpolants \cup {"other"} : bin' = in
    /\ op' = "TableBuilder" /\ final' = FALSE /\ xvec' = << >> /\ fvec' = << >>
    /\ UNCHANGED << pimpl, thrown, vars1D, vars2D, qin, qn, qa, qy, ri, rpath, rj,
                    rval, dfdx, dfdy, varsMany, varsThreads >>

\* TableBuilder::addEntry(x, f): appends while the builder is not finalized,
\* is refused afterwards.  Callers append in ascending order of x.
AddEntry ==
    /\ bin # "" /\ Idle
    /\ op' = "addEntry"
    /\ IF final
       THEN thrown' = "Failed Assert" /\ UNCHANGED << xvec, fvec >>
       ELSE /\ Len(xvec) < MaxEntries
            /\ \E x \in 0..MaxArg :
                  /\ \A k \in 1..Len(xvec) : RLt(xvec[k], R(x))
                  /\ xvec' = Append(xvec, R(x))
                  /\ \E f \in {R(10 * (Len(xvec) + 1)), R(x * x)} : fvec' = Append(fvec, f)
            /\ thrown' = ""
    /\ UNCHANGED << pimpl, vars1D, vars2D, qin, qn, qa, qy, ri, rpath, rj, rval,
                    dfdx, dfdy, varsMany, varsThreads, final, bin >>

FinalizeNoFlag ==
    /\ bin # "" /\ Idle
    /\ op' = "finalize"
    /\ Len(xvec) >= 2
    /\ LET t == TableImpl(Array(xvec), Array(fvec), Len(xvec), bin)
       IN  /\ thrown' = t.thrown
           /\ IF t.thrown = ""
              THEN /\ pimpl' = "TableImpl" /\ iType' = bin /\ args' = t.args
                   /\ vals' = Array(fvec) /\ y2' = t.y2
              ELSE UNCHANGED << pimpl, vars1D >>
    /\ UNCHANGED << vars2D, qin, qn, qa, qy, ri, rpath, rj, rval, dfdx, dfdy,
                    varsMany, varsThreads, final, bin, xvec, fvec >>

\* TableBuilder::finalize().  With fewer than two entries ArgVec::ArgVec
\* reads _vec[1] or _vec[-1] outside the vector, which is undefined: the
\* process may stop there, or go on with a TableImpl made of whatever was
\* read (pimpl "garbage"), or go on into the exception the rule leads to.
Finalize ==
    /\ bin # "" /\ Idle
    /\ op' = "finalize"
    /\ IF Len(xvec) < 2
       THEN \/ thrown' = "crash" /\ UNCHANGED << pimpl, vars1D, final >>
            \/ /\ bin \notin Interpolants
               /\ thrown' = "invalid interpolation method"
               /\ UNCHANGED << pimpl, vars1D, final >>
            \/ /\ bin = "spline"
               /\ thrown' = "length_error"
               /\ UNCHANGED << pimpl, vars1D, final >>
            \/ /\ bin \in Interpolants \ {"spline"}
               /\ thrown' = "" /\ pimpl' = "garbage" /\ iType' = bin
               /\ args' = NoArgVec /\ vals' = NoArray /\ y2' = NoArray
               /\ final' = TRUE
       ELSE LET t == TableImpl(Array(xvec), Array(fvec), Len(xvec), bin)
            IN  /\ thrown' = t.thrown
                /\ IF t.thrown = ""
                   THEN /\ pimpl' = "TableImpl" /\ iType' = bin /\ args' = t.args
                        /\ vals' = Array(fvec) /\ y2' = t.y2
                        /\ final' = TRUE
                   ELSE UNCHANGED << pimpl, vars1D, final >>
    /\ UNCHANGED << vars2D, qin, qn, qa, qy, ri, rpath, rj, rval, dfdx, dfdy,
                    varsMany, varsThreads, bin, xvec, fvec >>

\* TableBuilder::lookup(a): refused until the builder is finalized, then
\* Table::lookup(a).  On a TableImpl made by an undefined finalize the lookup
\* is undefined again: it stops the process or returns some value.
BuilderLookup ==
    /\ bin # "" /\ Idle
    /\ IF ~ final
       THEN /\ op' = "TableBuilder::lookup" /\ thrown' = "Failed Assert"
            /\ \E x \in 0..MaxArg : qa' = R(x)
            /\ UNCHANGED << pimpl, vars1D, vars2D, qin, qn, qy, ri, rpath, rj, rval,
                            dfdx, dfdy >>
       ELSE IF pimpl = "garbage"
       THEN /\ op' = "TableBuilder::lookup"
            /\ \E x \in 0..MaxArg : qa' = R(x)
            /\ \/ thrown' = "crash" /\ rval' = rval
               \/ thrown' = "" /\ rval' \in {Zero, One}
            /\ UNCHANGED << pimpl, vars1D, vars2D, qin, qn, qy, ri, rpath, rj,
                            dfdx, dfdy >>
       ELSE \E a \in Queries(args.vec) : TableImplLookup(a, "TableBuilder::lookup")
    /\ UNCHANGED varsRest

\* ------------------------------------- upperIndex from two threads at once
\* Several threads call upperIndex on one ArgVec with no lock.  Each read
\* and each write of the shared _lastIndex is a step of its own, at the
\* source line named by the thread's pc; _vec and _n are never written.

\* axes shared by threads: strictly ascending from 0, at least two samples
AxesT == { vec \in Axes(MaxArgT, MaxNT) : vec[0] = Zero }

\* queries of a thread: every sample, every cell's middle, one below, one above
QueriesT(vec) == Queries2D(vec)

\* Table::Table on the axis the threads will share
NewTableShared ==
    /\ op = ""
    /\ \E vec \in AxesT :
          /\ args' = ArgVec(vec, Size(vec)) /\ vals' = Values("tens", vec)
          /\ qn' = << Size(vec), 0 >>
    /\ op' = "shared" /\ qin' = "linear" /\ thrown' = ""
    /\ pimpl' = "TableImpl" /\ iType' = "linear" /\ y2' = NoArray
    /\ UNCHANGED << vars2D, qa, qy, ri, rpath, rj, rval, dfdx, dfdy, varsRest >>

\* thread t stands at line l of upperIndex and the process is alive
At(t, l) == op = "shared" /\ th[t].pc = l /\ \A u \in Threads : th[u].pc # "crashed"

\* thread t is between its first access to the cursor and its return
Searching(t) == th[t].pc \notin {"idle", "done", "thrown", "crashed"}

\* what the thread actions leave alone besides the cursor and the threads
TFrame ==
    UNCHANGED << pimpl, thrown, iType, vals, y2, vars2D, op, qin, qn, qa, qy, ri,
                 rpath, rj, rval, dfdx, dfdy, varsMany, varsBuilder >>

\* thread t goes to line l without touching shared state
Goto(t, l) ==
    /\ th' = [th EXCEPT ![t].pc = l]
    /\ UNCHANGED << args, raced >> /\ TFrame

\* an xassert on cond: the debug build throws when it fails, the release
\* build compiles it out and goes on
XAssert(t, cond, l) ==
    \/ Goto(t, l)
    \/ ~ cond /\ Goto(t, "thrown")

\* the doubles a read of _vec[i] can give: the sample, or anything at all
\* when i is outside the array
ReadVec(i) ==
    IF i \in 0..(args.n - 1) THEN {args.vec[i]}
    ELSE {RSub(args.vec[0], One), RAdd(args.vec[args.n - 1], One)}

\* a read of _vec[i] outside the array may also stop the process
Crash(t, i) == i \notin 0..(args.n - 1) /\ Goto(t, "crashed")

\* thread t stores val to _lastIndex and goes to line l with local state loc
Store(t, val, loc) ==
    /\ val \in (1 - MaxDrift)..(args.n - 1 + MaxDrift)
    /\ args' = [args EXCEPT !.lastIndex = val]
    /\ raced' = (raced \/ \E u \in Threads \ {t} : Searching(u))
    /\ th' = [th EXCEPT ![t] = loc]
    /\ TFrame

\* thread t returns i
Done(t, i) ==
    /\ th' = [th EXCEPT ![t].pc = "done", ![t].ret = i]
    /\ UNCHANGED << args, raced >> /\ TFrame

TCallTouchesCursor(t) ==
    /\ At(t, "idle")
    /\ \E a \in QueriesT(args.vec) :
          LET me == [th[t] EXCEPT !.a = a]
          IN  IF RLt(a, args.vec[0])
              THEN /\ th' = [th EXCEPT ![t] = [me EXCEPT !.pc = "done", !.ret = 1]]
                   /\ UNCHANGED args
              ELSE IF RGt(a, args.vec[args.n - 1])
              THEN /\ th' = [th EXCEPT ![t] = [me EXCEPT !.pc = "done", !.ret = args.n - 1]]
                   /\ UNCHANGED args
              ELSE IF args.equalSpaced
              THEN /\ th' = [th EXCEPT ![t] = [me EXCEPT !.pc = "done",
                                                        !.ret = EqualSpacedIndex(args, a)]]
                   /\ args' = [args EXCEPT !.lastIndex = EqualSpacedIndex(args, a)]
              ELSE /\ th' = [th EXCEPT ![t] = [me EXCEPT !.pc = "l98"]]
                   /\ UNCHANGED args
    /\ UNCHANGED raced /\ TFrame

\* lines 80-94: the slop checks and the whole equal-spaced branch, which use
\* only a, _vec, _n and _da
TCall(t) ==
    /\ At(t, "idle")
    /\ \E a \in QueriesT(args.vec) :
          LET me == [th[t] EXCEPT !.a = a]
          IN  th' = [th EXCEPT ![t] =
                  IF RLt(a, args.vec[0]) THEN [me EXCEPT !.pc = "done", !.ret = 1]
                  ELSE IF RGt(a, args.vec[args.n - 1])
                  THEN [me EXCEPT !.pc = "done", !.ret = args.n - 1]
                  ELSE IF args.equalSpaced
                  THEN [me EXCEPT !.pc = "done", !.ret = EqualSpacedIndex(args, a)]
                  ELSE [me EXCEPT !.pc = "l98"]]
    /\ UNCHANGED << args, raced >> /\ TFrame

\* line 98: xassert(_lastIndex >= 1)
T98(t) == At(t, "l98") /\ XAssert(t, args.lastIndex >= 1, "l99")

\* line 99: xassert(_lastIndex < _n)
T99(t) == At(t, "l99") /\ XAssert(t, args.lastIndex < args.n, "l100")

\* line 100: if ( a < _vec[_lastIndex-1] )
T100(t) ==
    /\ At(t, "l100")
    /\ \/ \E v \in ReadVec(args.lastIndex - 1) :
             Goto(t, IF RLt(th[t].a, v) THEN "l102" ELSE "l116")
       \/ Crash(t, args.lastIndex - 1)

\* line 102: xassert(_lastIndex-2 >= 0)
T102(t) == At(t, "l102") /\ XAssert(t, args.lastIndex - 2 >= 0, "l104")

\* line 104: if (a >= _vec[_lastIndex-2])
T104(t) ==
    /\ At(t, "l104")
    /\ \/ \E v \in ReadVec(args.lastIndex - 2) :
             Goto(t, IF RGe(th[t].a, v) THEN "l106" ELSE "l109")
       \/ Crash(t, args.lastIndex - 2)

\* line 106: return --_lastIndex, the load
T106(t) ==
    /\ At(t, "l106")
    /\ th' = [th EXCEPT ![t].pc = "l106w", ![t].p = args.lastIndex]
    /\ UNCHANGED << args, raced >> /\ TFrame

\* line 106: return --_lastIndex, the store and the return
T106w(t) ==
    /\ At(t, "l106w")
    /\ Store(t, th[t].p - 1, [th[t] EXCEPT !.pc = "done", !.ret = th[t].p - 1])

\* line 109: p = std::upper_bound(begin(), begin()+_lastIndex-1, a), and
\* line 110: xassert(p != begin())
T109(t) ==
    /\ At(t, "l109")
    /\ LET last == args.lastIndex - 1
           p == upper_bound(args.vec, 0, last, th[t].a)
       IN  \/ /\ last <= args.n
              /\ th' = [th EXCEPT ![t].pc = "l111", ![t].p = p]
              /\ UNCHANGED << args, raced >> /\ TFrame
           \/ /\ last <= args.n /\ p = 0
              /\ Goto(t, "thrown")
           \/ /\ last < 0 \/ last > args.n
              /\ Goto(t, "crashed")

\* line 111: xassert(p != begin()+_lastIndex-1)
T111(t) == At(t, "l111") /\ XAssert(t, th[t].p # args.lastIndex - 1, "l112")

T112OffByOne(t) ==
    /\ At(t, "l112")
    /\ Store(t, th[t].p - 1, [th[t] EXCEPT !.pc = "l114"])

\* line 112: _lastIndex = p-begin()
T112(t) ==
    /\ At(t, "l112")
    /\ Store(t, th[t].p, [th[t] EXCEPT !.pc = "l114"])

\* line 114: return _lastIndex
T114(t) == At(t, "l114") /\ Done(t, args.lastIndex)

\* line 116: else if (a > _vec[_lastIndex])
T116(t) ==
    /\ At(t, "l116")
    /\ \/ \E v \in ReadVec(args.lastIndex) :
             Goto(t, IF RGt(th[t].a, v) THEN "l117" ELSE "l135")
       \/ Crash(t, args.lastIndex)

\* line 117: xassert(_lastIndex+1 < _n)
T117(t) == At(t, "l117") /\ XAssert(t, args.lastIndex + 1 < args.n, "l119")

\* line 119: if (a <= _vec[_lastIndex+1])
T119(t) ==
    /\ At(t, "l119")
    /\ \/ \E v \in ReadVec(args.lastIndex + 1) :
             Goto(t, IF RLe(th[t].a, v) THEN "l121" ELSE "l124")
       \/ Crash(t, args.lastIndex + 1)

\* line 121: return ++_lastIndex, the load
T121(t) ==
    /\ At(t, "l121")
    /\ th' = [th EXCEPT ![t].pc = "l121w", ![t].p = args.lastIndex]
    /\ UNCHANGED << args, raced >> /\ TFrame

\* line 121: return ++_lastIndex, the store and the return
T121w(t) ==
    /\ At(t, "l121w")
    /\ Store(t, th[t].p + 1, [th[t] EXCEPT !.pc = "done", !.ret = th[t].p + 1])

\* line 124: p = std::lower_bound(begin()+_lastIndex+1, end(), a)
T124(t) ==
    /\ At(t, "l124")
    /\ LET first == args.lastIndex + 1
           p == lower_bound(args.vec, first, args.n - first, th[t].a)
       IN  \/ /\ first >= 0
              /\ th' = [th EXCEPT ![t].pc = "l125", ![t].p = p]
              /\ UNCHANGED << args, raced >> /\ TFrame
           \/ /\ first < 0 \/ first > args.n
              /\ Goto(t, "crashed")

\* line 125: xassert(p != begin()+_lastIndex+1), and
\* line 126: xassert(p != end())
T125(t) ==
    /\ At(t, "l125")
    /\ XAssert(t, th[t].p # args.lastIndex + 1 /\ th[t].p # args.n, "l127")

\* line 127: _lastIndex = p-begin()
T127(t) ==
    /\ At(t, "l127")
    /\ Store(t, th[t].p, [th[t] EXCEPT !.pc = "l129"])

\* line 129: return _lastIndex
T129(t) == At(t, "l129") /\ Done(t, args.lastIndex)

\* line 135: return _lastIndex
T135(t) == At(t, "l135") /\ Done(t, args.lastIndex)

\* the caller of thread t takes the index, or catches the exception
TReturn(t) ==
    /\ th[t].pc \in {"done", "thrown"} /\ At(t, th[t].pc)
    /\ th' = [th EXCEPT ![t] = IdleThread]
    /\ UNCHANGED << args, raced >> /\ TFrame

\* ------------------------------------------------------- specifications
Next1D == NewTable \/ Lookup \/ Call \/ InterpManyBegin \/ InterpManyStep \/ Return
Next2D == NewTable2D \/ Lookup2D \/ Gradient \/ Return
Next ==
    \/ NewTable \/ Lookup \/ Call \/ InterpManyBegin \/ InterpManyStep
    \/ NewTable2D \/ Lookup2D \/ Gradient
    \/ NewBuilder \/ AddEntry \/ Finalize \/ BuilderLookup \/ Return
NextBuilder == NewBuilder \/ AddEntry \/ Finalize \/ BuilderLookup \/ Return

Spec == Init /\ [][Next]_vars
Spec1D == Init /\ [][Next1D]_vars
Spec2D == Init /\ [][Next2D]_vars
SpecBuilder == Init /\ [][NextBuilder]_vars

NextThreads ==
    \/ NewTableShared
    \/ \E t \in Threads :
          \/ TCall(t) \/ T98(t) \/ T99(t) \/ T100(t) \/ T102(t) \/ T104(t)
          \/ T106(t) \/ T106w(t) \/ T109(t) \/ T111(t) \/ T112(t) \/ T114(t)
          \/ T116(t) \/ T117(t) \/ T119(t) \/ T121(t) \/ T121w(t) \/ T124(t)
          \/ T125(t) \/ T127(t) \/ T129(t) \/ T135(t) \/ TReturn(t)
SpecThreads == Init /\ [][NextThreads]_vars

\* ----------------------------------------------------------------- claims
InRange(av, a) == RLe(av.vec[0], a) /\ RLe(a, av.vec[av.n - 1])

\* the 1D call in progress went through ArgVec::upperIndex
Resolved1D ==
    \/ op = "lookup"
    \/ op = "operator()" /\ InRange(args, qa)
    \/ op = "interpMany" /\ bk > 0

\* C1: on every axis (evenly spaced or not) and from every cursor position
\* earlier queries left, upperIndex(a) raises no error and returns i with
\* 1 <= i <= N-1 and args[i-1] <= a <= args[i] for a inside the sampled range,
\* 1 for a below the first sample and N-1 for a above the last.
C1_UpperIndexBrackets ==
    Resolved1D =>
        /\ thrown = ""
        /\ IF RLt(qa, args.vec[0]) THEN ri = 1
           ELSE IF RGt(qa, args.vec[args.n - 1]) THEN ri = args.n - 1
           ELSE /\ 1 <= ri /\ ri <= args.n - 1
                /\ RLe(args.vec[ri-1], qa) /\ RLe(qa, args.vec[ri])

\* a lookup on an unevenly spaced axis that jumped down by bisection to the
\* first sample, and came back without an error
C1_Witness ==
    /\ op = "lookup" /\ ~ args.equalSpaced /\ rpath = "lower" /\ thrown = ""
    /\ qa = args.vec[0] /\ ri = 1

\* the call in progress asked for exactly sample k of the 1D table
AtSample(k) == qa = args.vec[k]

\* C2: with the linear rule a lookup at a sample point returns that sample's
\* value exactly, for every sample k and every cursor state, whichever of the
\* two adjacent brackets upperIndex resolved to.
C2_LinearExactAtSamples ==
    (Resolved1D /\ iType = "linear") =>
        \A k \in 0..(args.n - 1) : AtSample(k) => rval = vals[k]

\* a linear lookup on an unevenly spaced axis at an interior sample that
\* upperIndex resolved as the lower end of its bracket
C2_Witness ==
    /\ op = "lookup" /\ iType = "linear" /\ ~ args.equalSpaced
    /\ ri >= 2 /\ AtSample(ri - 1) /\ rval = vals[ri - 1] /\ rval # vals[ri]

\* C3: with the floor, ceil or nearest rule a lookup at a sample point returns
\* that sample's own value, for every sample k (first and last included) and
\* every cursor state; on args=[0,1,2,3], vals=[10,20,30,40], floor at 1 and
\* ceil at 1 are both 20.
C3_StepRulesExactAtSamples ==
    (Resolved1D /\ iType \in {"floor", "ceil", "nearest"}) =>
        \A k \in 0..(args.n - 1) : AtSample(k) => rval = vals[k]

\* the floor lookup at 1 on args=[0,1,2,3], vals=[10,20,30,40] returned 20
C3_Witness ==
    /\ op = "lookup" /\ iType = "floor"
    /\ args.vec = Ascending({0, 1, 2, 3})
    /\ vals = [k \in 0..3 |-> R(10 * (k + 1))]
    /\ qa = One /\ rval = R(20)

\* the value the rule in gives at a from the bracket (i-1, i), written from
\* the rule's definition: the chord through the two samples, the lower or
\* the upper sample, the closer sample, the cubic of the natural spline
BracketValue(in, av, v, yy, a, i) ==
    LET x0 == av.vec[i-1]
        x1 == av.vec[i]
        h == RSub(x1, x0)
        aa == RDiv(RSub(x1, a), h)
        bb == RSub(One, aa)
        cube(z) == RMul(z, RMul(z, z))
    IN  CASE in = "linear" ->
               RAdd(v[i-1], RDiv(RMul(RSub(v[i], v[i-1]), RSub(a, x0)), h))
          [] in = "floor" -> IF a = x1 THEN v[i] ELSE v[i-1]
          [] in = "ceil" -> IF a = x0 THEN v[i-1] ELSE v[i]
          [] in = "nearest" -> IF RLt(RSub(a, x0), RSub(x1, a)) THEN v[i-1] ELSE v[i]
          [] in = "spline" ->
               RAdd(RAdd(RMul(aa, v[i-1]), RMul(bb, v[i])),
                    RDiv(RMul(RAdd(RMul(RSub(cube(aa), aa), yy[i-1]),
                                   RMul(RSub(cube(bb), bb), yy[i])),
                              RMul(h, h)),
                         R(6)))

\* C4: operator()(a) returns exactly 0 for a below argMin() or above argMax(),
\* for every rule and without touching the axis cursor, and returns vals[0]
\* at a = argMin() for every rule; lookup(a) never substitutes zero outside
\* the range: it interpolates from the clamped bracket (1 below, N-1 above).
C4_RangeCheckedAccessor ==
    [][ /\ (op' = "operator()" /\ ~ InRange(args', qa')) =>
               (rval' = Zero /\ thrown' = "" /\ args' = args)
        /\ (op' = "operator()" /\ qa' = args'.vec[0]) => rval' = vals'[0]
        /\ (op' = "lookup" /\ RLt(qa', args'.vec[0])) =>
               rval' = BracketValue(iType', args', vals', y2', qa', 1)
        /\ (op' = "lookup" /\ RGt(qa', args'.vec[args'.n - 1])) =>
               rval' = BracketValue(iType', args', vals', y2', qa', args'.n - 1)
      ]_vars

\* operator() below the range returned 0 on a table whose first value is not 0
\* and whose cursor earlier queries had moved off its initial cell
C4_Witness ==
    /\ op = "operator()" /\ RLt(qa, args.vec[0]) /\ rval = Zero
    /\ vals[0] # Zero /\ args.lastIndex > 1

C5_GradientRejected ==
    (op = "gradient" /\ in2 \in {"floor", "ceil", "nearest"}) =>
        thrown \in { "gradient not implemented for floor interp",
                     "gradient not implemented for ceil interp",
                     "gradient not implemented for nearest interp" }

\* gradient was called on a nearest-rule table at an in-range point and threw
C5_Witness ==
    /\ op = "gradient" /\ in2 = "nearest" /\ thrown # ""
    /\ InRange(xargs, qa) /\ InRange(yargs, qy)

\* C7: constructing a Table or a Table2D with a rule outside its recognized
\* set fails at construction with "invalid interpolation method" and leaves
\* no table to query.
C7_InvalidRuleRejected ==
    /\ (op = "Table" /\ qin \notin {"linear", "floor", "ceil", "nearest", "spline"}) =>
           (thrown = "invalid interpolation method" /\ pimpl = "null")
    /\ (op = "Table2D" /\ qin \notin {"floor", "ceil", "nearest", "linear"}) =>
           (thrown = "invalid interpolation method" /\ pimpl = "null")
    /\ pimpl = "TableImpl" => iType \in {"linear", "floor", "ceil", "nearest", "spline"}
    /\ pimpl = "Table2DImpl" => in2 \in {"floor", "ceil", "nearest", "linear"}

\* the Table2D constructor was called with an unrecognized rule and threw
C7_Witness ==
    /\ op = "Table2D" /\ qin = "other" /\ pimpl = "null"
    /\ thrown = "invalid interpolation method"

\* the 2D call in progress asked for exactly grid point (k, m)
AtGridPoint(k, m) == qa = xargs.vec[k] /\ qy = yargs.vec[m]

\* C8: a bilinear lookup at grid point (xargs[k], yargs[m]) returns exactly
\* vals[k*Ny + m], whichever neighbouring cell the two axes resolved to and
\* for any cursor states.
C8_BilinearExactAtGrid ==
    (op = "lookup2D" /\ in2 = "linear") =>
        \A k \in 0..(xargs.n - 1), m \in 0..(yargs.n - 1) :
            AtGridPoint(k, m) => rval = vals2[k * yargs.n + m]

\* a bilinear lookup at a grid point that is the lower x corner and the upper
\* y corner of the resolved cell, on an unevenly spaced x axis
C8_Witness ==
    /\ op = "lookup2D" /\ in2 = "linear" /\ ~ xargs.equalSpaced
    /\ ri >= 1 /\ rj >= 1 /\ AtGridPoint(ri - 1, rj)
    /\ rval = vals2[(ri - 1) * yargs.n + rj]

\* what bilinear interp(x, y) returns when called on the present table
InterpAt(x, y) ==
    T2DLinearInterp(xargs, yargs, vals2, yargs.n, x, y,
                    upperIndex(xargs, x).ret, upperIndex(yargs, y).ret)

\* z lies in the closed cell (i-1, i) of the axis
InCell(av, i, z) == RLe(av.vec[i-1], z) /\ RLe(z, av.vec[i])

\* C9: for a bilinear Table2D gradient(x, y) returns the partial derivatives
\* of the bilinear surface of the cell (i, j) that brackets (x, y):
\* dfdx = ((f10-f00)*ay + (f11-f01)*by)/dx, dfdy = ((f01-f00)*ax + (f11-f10)*bx)/dy,
\* so that moving inside that cell changes interp by exactly the step times
\* the derivative: interp(x', y) - interp(x, y) = (x'-x)*dfdx and
\* interp(x, y') - interp(x, y) = (y'-y)*dfdy.
C9_BilinearGradientExact ==
    (op = "gradient" /\ in2 = "linear") =>
        LET ny == yargs.n
            dx == RSub(xargs.vec[ri], xargs.vec[ri-1])
            dy == RSub(yargs.vec[rj], yargs.vec[rj-1])
            f00 == vals2[(ri-1)*ny + rj-1]
            f01 == vals2[(ri-1)*ny + rj]
            f10 == vals2[ri*ny + rj-1]
            f11 == vals2[ri*ny + rj]
            bx == RDiv(RSub(qa, xargs.vec[ri-1]), dx)
            ax == RDiv(RSub(xargs.vec[ri], qa), dx)
            by == RDiv(RSub(qy, yargs.vec[rj-1]), dy)
            ay == RDiv(RSub(yargs.vec[rj], qy), dy)
        IN  /\ thrown = ""
            /\ dfdx = RDiv(RAdd(RMul(RSub(f10, f00), ay), RMul(RSub(f11, f01), by)), dx)
            /\ dfdy = RDiv(RAdd(RMul(RSub(f01, f00), ax), RMul(RSub(f11, f10), bx)), dy)
            /\ \A x2 \in Queries2D(xargs.vec) :
                  InCell(xargs, ri, x2) =>
                      RSub(InterpAt(x2, qy), InterpAt(qa, qy)) = RMul(RSub(x2, qa), dfdx)
            /\ \A y2q \in Queries2D(yargs.vec) :
                  InCell(yargs, rj, y2q) =>
                      RSub(InterpAt(qa, y2q), InterpAt(qa, qy)) = RMul(RSub(y2q, qy), dfdy)

\* gradient at the middle of the upper-right cell of a table with at least
\* two cells per axis, with both derivatives non-zero
C9_Witness ==
    /\ op = "gradient" /\ in2 = "linear" /\ thrown = ""
    /\ ri = 2 /\ rj = 2 /\ ~ xargs.equalSpaced
    /\ RLt(xargs.vec[1], qa) /\ RLt(qa, xargs.vec[2])
    /\ RLt(yargs.vec[1], qy) /\ RLt(qy, yargs.vec[2])
    /\ dfdx # Zero /\ dfdy # Zero

\* C10: with the floor, ceil or nearest rule a Table2D lookup at grid point
\* (xargs[k], yargs[m]) returns vals[k*Ny + m], for every k and m (first and
\* last rows and columns included) and any cursor states.
C10_StepRulesExactAtGrid ==
    (op = "lookup2D" /\ in2 \in {"floor", "ceil", "nearest"}) =>
        \A k \in 0..(xargs.n - 1), m \in 0..(yargs.n - 1) :
            AtGridPoint(k, m) => rval = vals2[k * yargs.n + m]

\* a ceil lookup at the first row and last column of a grid with Nx # Ny
C10_Witness ==
    /\ op = "lookup2D" /\ in2 = "ceil" /\ xargs.n # yargs.n
    /\ AtGridPoint(0, yargs.n - 1) /\ rval = vals2[yargs.n - 1]

\* the linear lookup at 2.5 on args=[0,1,2,3,4], vals=[0,1,4,9,16]
SquaresAtTwoAndAHalf ==
    /\ Resolved1D /\ iType = "linear"
    /\ args.vec = Ascending({0, 1, 2, 3, 4})
    /\ vals = [k \in 0..4 |-> R(k * k)]
    /\ qa = Rat(5, 2)

\* C11 as stated: that lookup returns (9+16)/2 = 12.5
C11_Original == SquaresAtTwoAndAHalf => rval = Rat(25, 2)

\* C11 (amended): for args=[0,1,2,3,4], vals=[0,1,4,9,16] with the linear rule
\* the lookup at x=2.5 returns exactly (4+9)/2 = 6.5, the middle of the chord
\* over the cell [2,3] that brackets 2.5.
C11_LinearMidpoint == SquaresAtTwoAndAHalf => (ri = 3 /\ rval = Rat(13, 2))

\* that lookup was made and returned 6.5
C11_Witness == SquaresAtTwoAndAHalf /\ op = "lookup" /\ rval = Rat(13, 2)

\* the samples of the present 1D table lie on one straight line
OnALine ==
    \A k \in 1..(args.n - 1) :
        RDiv(RSub(vals[k], vals[k-1]), RSub(args.vec[k], args.vec[k-1]))
            = RDiv(RSub(vals[1], vals[0]), RSub(args.vec[1], args.vec[0]))

\* the value at a of the straight line through the first two samples
LineValue(a) ==
    RAdd(vals[0], RMul(RDiv(RSub(vals[1], vals[0]), RSub(args.vec[1], args.vec[0])),
                       RSub(a, args.vec[0])))

\* C12: when the samples lie on a straight line the spline rule computes
\* y2[i] = 0 for every i, and a spline lookup at any a in range returns the
\* line's value at a.
C12_SplineOfLineIsLine ==
    (pimpl = "TableImpl" /\ iType = "spline" /\ OnALine) =>
        /\ \A i \in 0..(args.n - 1) : y2[i] = Zero
        /\ (Resolved1D /\ InRange(args, qa)) => rval = LineValue(qa)

\* a spline lookup strictly inside a cell of an unevenly spaced table of at
\* least four collinear samples with non-zero slope
C12_Witness ==
    /\ op = "lookup" /\ iType = "spline" /\ OnALine /\ args.n >= 4
    /\ ~ args.equalSpaced /\ vals[1] # vals[0]
    /\ RLt(args.vec[ri-1], qa) /\ RLt(qa, args.vec[ri]) /\ rval = LineValue(qa)

\* what Table::lookup(a) returns on a table built from the same arrays and
\* not queried yet, whose cursor still has its initial value
FreshLookup(a) ==
    LET fresh == [args EXCEPT !.lastIndex = 1]
    IN  interpolate(iType, fresh, vals, y2, a, upperIndex(fresh, a).ret)

\* C13: interpMany writes for every element exactly the value a single
\* lookup of that element returns on a freshly built table: the value depends
\* neither on the order of the batch nor on the cursor earlier queries left,
\* and an out-of-range element is clamped like a scalar lookup, the batch
\* going on after it.
C13_BatchEqualsFreshLookups ==
    /\ (op = "interpMany" /\ bk > 0) => (thrown = "" /\ rval = FreshLookup(qa))
    /\ op = "lookup" => rval = FreshLookup(qa)

\* the last element of a batch of at least two was resolved to another
\* bracket than a fresh table resolves it to
C13_Witness ==
    /\ op = "interpMany" /\ bn >= 2 /\ bk = bn /\ thrown = ""
    /\ ri # upperIndex([args EXCEPT !.lastIndex = 1], qa).ret
    /\ rval = FreshLookup(qa)

\* index i is a bracket of a on the axis
Brackets(av, i, a) ==
    1 <= i /\ i <= av.n - 1 /\ RLe(av.vec[i-1], a) /\ RLe(a, av.vec[i])

\* a is one of the samples strictly between the first and the last
InteriorSample(av, a) == \E k \in 1..(av.n - 2) : a = av.vec[k]

\* what the cursor branch of upperIndex returns for a with the cursor at c
SearchFrom(c, a) == SearchIndex([args EXCEPT !.lastIndex = c], a)

\* C17 as stated: on an axis that passes the spacing test, the index of the
\* arithmetic path equals the index of the cursor path for the same a and
\* every cursor, queries on a sample included
C17_Original ==
    (Resolved1D /\ rpath = "equal") =>
        \A c \in 1..(args.n - 1) : SearchFrom(c, qa).ret = ri

\* C17 (amended): on an axis that passes the spacing test, for every in-range
\* a and every cursor both paths return an index that brackets a, and the two
\* indices are equal whenever a is not an interior sample; for a = args[k]
\* with 0 < k < N-1 each path returns k or k+1 and the two may differ.
C17_PathsAgreeOffSamples ==
    (Resolved1D /\ rpath = "equal") =>
        /\ Brackets(args, ri, qa)
        /\ \A c \in 1..(args.n - 1) :
              LET s == SearchFrom(c, qa)
              IN  /\ s.ok /\ Brackets(args, s.ret, qa)
                  /\ ~ InteriorSample(args, qa) => s.ret = ri

\* the arithmetic path resolved a query strictly inside a cell, between the
\* nominal and the actual position of a sample of a nearly even axis
C17_Witness ==
    /\ op = "lookup" /\ rpath = "equal" /\ args.vec \in NearUniform
    /\ ri = 2 /\ RLt(R(400), qa) /\ RLt(qa, args.vec[2])
    /\ \A c \in 1..(args.n - 1) : SearchFrom(c, qa).ret = 2

\* C18: on an uneven axis an in-range query a with the cursor at c leaves the
\* cursor at c if args[c-1] <= a <= args[c], moves it to c-1 if
\* args[c-2] <= a < args[c-1], to c+1 if args[c] < a <= args[c+1], and
\* otherwise to the bracket found among the indices 0..c-2 or c+1..N-1; the
\* index returned is the new cursor; an out-of-range query leaves the cursor.
C18_CursorMoves ==
    [][ ( /\ pimpl = "TableImpl" /\ ~ args.equalSpaced
          /\ \/ op' = "lookup"
             \/ op' = "interpMany" /\ bk' = bk + 1
             \/ op' = "operator()" /\ InRange(args, qa') ) =>
        LET c == args.lastIndex
            new == args'.lastIndex
            a == qa'
            vec == args.vec
        IN  IF ~ InRange(args, a) THEN new = c
            ELSE /\ ri' = new
                 /\ IF RLe(vec[c-1], a) /\ RLe(a, vec[c]) THEN new = c
                    ELSE IF c >= 2 /\ RLe(vec[c-2], a) /\ RLt(a, vec[c-1]) THEN new = c - 1
                    ELSE IF c + 1 <= args.n - 1 /\ RLt(vec[c], a) /\ RLe(a, vec[c+1])
                         THEN new = c + 1
                    ELSE IF RLt(a, vec[c-1])
                         THEN new \in 1..(c-2) /\ RLe(vec[new-1], a) /\ RLt(a, vec[new])
                    ELSE new \in (c+2)..(args.n - 1)
                         /\ RLt(vec[new-1], a) /\ RLe(a, vec[new])
      ]_vars

\* a lookup jumped up by bisection and the cursor is where it landed
C18_Witness ==
    /\ op = "lookup" /\ rpath = "higher" /\ ri = args.lastIndex /\ ri >= 3
    /\ RLt(args.vec[ri-1], qa) /\ RLe(qa, args.vec[ri])

\* C19: in every state a single-threaded sequence of upperIndex calls reaches
\* the cursor satisfies 1 <= _lastIndex <= N-1 and no xassert of upperIndex
\* has failed.
C19_CursorInRange ==
    pimpl = "TableImpl" =>
        /\ 1 <= args.lastIndex /\ args.lastIndex <= args.n - 1
        /\ thrown # "Failed Assert" /\ rpath # "assert"

\* a lookup jumped down by bisection to a cell above the first sample
C19_Witness ==
    /\ op = "lookup" /\ rpath = "lower" /\ thrown = ""
    /\ args.lastIndex = 1 /\ RLt(args.vec[0], qa)

\* C20: a spline table of N >= 3 samples has N second derivatives with
\* y2[0] = y2[N-1] = 0, set by the constructor and changed by no lookup,
\* operator() or interpMany call; for the other four rules y2 stays empty.
C20_SplineCoefficientsFixed ==
    [][ /\ pimpl = "TableImpl" => y2' = y2
        /\ (pimpl' = "TableImpl" /\ iType' = "spline") =>
               /\ args'.n >= 3 /\ DOMAIN y2' = 0..(args'.n - 1)
               /\ y2'[0] = Zero /\ y2'[args'.n - 1] = Zero
        /\ (pimpl' = "TableImpl" /\ iType' # "spline") => y2' = NoArray
      ]_vars

\* an interpMany turn on a spline table of at least four samples whose inner
\* second derivatives are not zero
C20_Witness ==
    /\ op = "interpMany" /\ bk >= 1 /\ iType = "spline" /\ args.n >= 4
    /\ y2[1] # Zero /\ y2[args.n - 2] # Zero /\ y2[0] = Zero /\ y2[args.n - 1] = Zero

\* C16: a finalized builder stays finalized under every operation; a
\* finalize() that returns leaves _final true; after it no addEntry is
\* accepted and the entries never change; before it no lookup is answered.
C16_FinalizeOneWay ==
    [][ /\ final => final'
        /\ (op' = "finalize" /\ thrown' = "") => final'
        /\ final => (xvec' = xvec /\ fvec' = fvec)
        /\ (final /\ op' = "addEntry") => thrown' # ""
        /\ (~ final /\ op' = "TableBuilder::lookup") => (thrown' # "" /\ rval' = rval)
      ]_vars

\* a builder of at least two entries was finalized and then refused an append
C16_Witness ==
    /\ final /\ pimpl = "TableImpl" /\ Len(xvec) >= 2
    /\ op = "addEntry" /\ thrown # ""

\* C14: on a shared uneven axis some interleaving of two unsynchronized
\* upperIndex calls makes a call return an index that does not bracket its
\* in-range query and takes the cursor out of 1..N-1 (C14_Witness is such a
\* state); short of a store to the cursor during another thread's search
\* neither happens.
C14_OnlyRacesCorrupt ==
    (op = "shared" /\ ~ raced) =>
        /\ 1 <= args.lastIndex /\ args.lastIndex <= args.n - 1
        /\ \A t \in Threads :
              /\ th[t].pc \notin {"thrown", "crashed"}
              /\ (th[t].pc = "done" /\ InRange(args, th[t].a)) =>
                     Brackets(args, th[t].ret, th[t].a)

\* two racing calls on an uneven axis: one has returned an index that does
\* not bracket its in-range query, and the cursor is outside 1..N-1
C14_Witness ==
    /\ op = "shared" /\ ~ args.equalSpaced /\ raced
    /\ \E t \in Threads :
          /\ th[t].pc = "done" /\ InRange(args, th[t].a)
          /\ ~ Brackets(args, th[t].ret, th[t].a)
    /\ ~ (1 <= args.lastIndex /\ args.lastIndex <= args.n - 1)

\* C15: on an evenly spaced shared axis no step of any thread changes the
\* cursor, no thread ever stands at a line that reads it, and every call
\* returns, whatever the other thread does, the bracketing index that
\* upperIndex returns when run alone from any cursor value.
C15_UniformIgnoresCursor ==
    [][ (op = "shared" /\ args.equalSpaced) =>
          /\ args'.lastIndex = args.lastIndex
          /\ \A t \in Threads :
                /\ th'[t].pc \in {"idle", "done"}
                /\ th'[t].pc = "done" =>
                      /\ \A c \in (1 - MaxDrift)..(args.n - 1 + MaxDrift) :
                            th'[t].ret =
                                upperIndex([args EXCEPT !.lastIndex = c], th'[t].a).ret
                      /\ InRange(args, th'[t].a) =>
                            Brackets(args, th'[t].ret, th'[t].a)
      ]_vars

\* both threads have finished overlapping calls on an evenly spaced axis of
\* at least three samples with different in-range queries
C15_Witness ==
    /\ op = "shared" /\ args.equalSpaced /\ args.n >= 3
    /\ \A t \in Threads : th[t].pc = "done" /\ InRange(args, th[t].a)
    /\ th[1].ret # th[2].ret /\ args.lastIndex = 1

\* row i of the spline system as the claim writes it
SplineRow(i) ==
    RAdd(RAdd(RMul(RSub(args.vec[i], args.vec[i-1]), y2[i-1]),
              RMul(RMul(R(2), RSub(args.vec[i+1], args.vec[i-1])), y2[i])),
         RMul(RSub(args.vec[i+1], args.vec[i]), y2[i+1]))
      = RMul(R(6), RSub(RDiv(RSub(vals[i+1], vals[i]), RSub(args.vec[i+1], args.vec[i])),
                        RDiv(RSub(vals[i], vals[i-1]), RSub(args.vec[i], args.vec[i-1]))))

\* C21: the y2 of a spline table of N >= 4 samples, which the Thomas
\* algorithm computed, solves the band system of the symmetric-tridiagonal
\* solver path (its interior entries are a solution of M * sol = rhs): every
\* interior row i satisfies the spline equation with y2[0] = y2[N-1] = 0; the
\* closed form for N = 3 satisfies the same equation.
C21_ThomasSolvesTheSystem ==
    (pimpl = "TableImpl" /\ iType = "spline") =>
        /\ y2[0] = Zero /\ y2[args.n - 1] = Zero
        /\ \A i \in 1..(args.n - 2) : SplineRow(i)
        /\ TmvSolves(args, vals, [k \in 0..(args.n - 3) |-> y2[k + 1]])

\* a spline table on five unevenly curved samples whose three interior second
\* derivatives are all different from zero, after a lookup
C21_Witness ==
    /\ pimpl = "TableImpl" /\ iType = "spline" /\ args.n = 5 /\ op = "lookup"
    /\ \A i \in 1..3 : y2[i] # Zero
    /\ y2[1] # y2[2] /\ SplineRow(2)

\* C22: every lookup made single-threaded, for a query in range, out of
\* range or on the first or last sample and from every cursor, reads _vec,
\* _args, _vals and _y2 of a 1D table only at subscripts 0..N-1 (for spline
\* _y2 has N elements) and, in 2D, both axes inside 0..Nx-1 and 0..Ny-1 and
\* _vals inside 0..Nx*Ny-1; a step rule returns the element at the subscript
\* it read.
C22_SubscriptsInBounds ==
    [][ /\ ( /\ pimpl = "TableImpl" /\ thrown' = ""
             /\ \/ op' \in {"lookup", "TableBuilder::lookup"}
                \/ op' = "operator()" /\ InRange(args, qa')
                \/ op' = "interpMany" /\ bk' = bk + 1 ) =>
              LET s == interpolateSubscripts(iType, args, qa', ri')
                  inside == 0..(args.n - 1)
              IN  /\ upperIndexSubscripts(args, qa') \subseteq inside
                  /\ s.args \subseteq inside
                  /\ s.vals \subseteq inside /\ DOMAIN vals = inside
                  /\ s.y2 \subseteq inside /\ s.y2 \subseteq DOMAIN y2
                  /\ iType \in {"floor", "ceil", "nearest"} =>
                         \A k \in s.vals : rval' = vals[k]
        /\ ( /\ pimpl = "Table2DImpl" /\ thrown' = ""
             /\ op' \in {"lookup2D", "gradient"} ) =>
              LET s == interpSubscripts(in2, xargs, yargs, yargs.n, qa', qy', ri', rj')
              IN  /\ upperIndexSubscripts(xargs, qa') \subseteq 0..(xargs.n - 1)
                  /\ upperIndexSubscripts(yargs, qy') \subseteq 0..(yargs.n - 1)
                  /\ s.xargs \subseteq 0..(xargs.n - 1)
                  /\ s.yargs \subseteq 0..(yargs.n - 1)
                  /\ s.vals \subseteq 0..(xargs.n * yargs.n - 1)
                  /\ DOMAIN vals2 = 0..(xargs.n * yargs.n - 1)
                  /\ (op' = "lookup2D" /\ in2 # "linear") =>
                         \A k \in s.vals : rval' = vals2[k]
      ]_vars

\* a floor lookup exactly on the last sample of an uneven axis: upperIndex
\* gave N-1, the rule stepped to N and read the last element of _vals
C22_Witness ==
    /\ pimpl = "TableImpl" /\ iType = "floor" /\ op = "lookup" /\ thrown = ""
    /\ args.n >= 3 /\ ~ args.equalSpaced
    /\ qa = args.vec[args.n - 1] /\ ri = args.n - 1
    /\ interpolateSubscripts(iType, args, qa, ri).vals = {args.n - 1}
    /\ rval = vals[args.n - 1]

====
